---- MODULE Spec2Model ----
(***************************************************************************)
(* In-memory Company / Employee record store of the Employee/Company API:  *)
(* the two dictionaries of main.py, the pydantic models of models/, and    *)
(* one action per request handler.                                         *)
(***************************************************************************)
EXTENDS Integers, Sequences, FiniteSets, TLC

\* ------------------------------------------------------------------ bounds
\* Number of distinct UUID values uuid4() can return for a company.
NumCompanyIds == 3
\* Number of distinct UUID values uuid4() can return for an employee.
NumEmployeeIds == 3
\* Largest value of the wall clock read by datetime.utcnow.
MaxClock == 1
\* Number of state-changing requests served in one behaviour of Spec.
MaxOps == 3
\* Number of state-changing requests served in one behaviour of SpecCascade.
MaxCascadeOps == 6
\* Number of state-changing requests served in one behaviour of SpecLink.
MaxLinkOps == 5
\* Number of state-changing requests served in one behaviour of SpecList.
MaxListOps == 4
\* Number of state-changing requests served one at a time in SpecConc.
MaxConcOps == 3
\* Number of worker threads that serve one request each in SpecConc.
NumThreads == 2

CompanyIds == 1..NumCompanyIds
EmployeeIds == 1..NumEmployeeIds
Threads == 1..NumThreads

\* Python's None.
None == "None"

\* ------------------------------------------------------------- state
VARIABLES
    companies,   \* main.py: companies: Dict[UUID, CompanyRead]
    employees,   \* main.py: employees: Dict[UUID, EmployeeRead]
    order,       \* the insertion order of the keys of the two dictionaries
    issued,      \* history: every key each dictionary has ever had
    now,         \* the clock datetime.utcnow reads
    budget,      \* number of state-changing requests still to be served
    pre,         \* history: both dictionaries as they were before the last request
    last,        \* history: the last request, its arguments (for a create, the
                 \* identifier uuid4 returned), and its response
    th           \* the requests the worker threads are serving, step by step

vars == <<companies, employees, order, issued, now, budget, pre, last, th>>

\* ------------------------------------------------------ dict helpers
EmptyDict == <<>>

\* dict.update: the entries of upd win over those of d.
DictUpdate(d, upd) == upd @@ d

\* A dict restricted to some of its keys.
Restrict(d, keys) == [f \in DOMAIN d \cap keys |-> d[f]] @@ EmptyDict

\* dict.pop(key, None) / del d[key] / model_dump(exclude={key}).
DictPop(d, key) == [f \in DOMAIN d \ {key} |-> d[f]] @@ EmptyDict

\* d[key] = value.
DictSet(d, key, value) == (key :> value) @@ d

Range(s) == {s[i] : i \in DOMAIN s}

\* The keys of a dict in insertion order, after it became d: a key that is
\* assigned again keeps its place, a deleted key leaves, a new key goes last.
KeysAfter(keys, d) ==
    LET kept == SelectSeq(keys, LAMBDA k : k \in DOMAIN d)
        added == DOMAIN d \ Range(keys)
    IN  IF added = {} THEN kept ELSE Append(kept, CHOOSE k \in added : TRUE)

\* list(d.values()): the values in insertion order.
Values(d, keys) == [i \in DOMAIN keys |-> d[keys[i]]]

Min(a, b) == IF a <= b THEN a ELSE b

\* ------------------------------------------------- models/company.py
CompanyBaseFields == {"name", "website", "industry", "founded", "size"}
CompanyReadFields == CompanyBaseFields \cup {"id", "created_at", "updated_at"}

\* CompanyCreate(**body): declared fields only, optional ones default to None.
CompanyCreate(body) ==
    Restrict(body, CompanyBaseFields) @@ [f \in CompanyBaseFields |-> None]

\* Whether CompanyBase validation accepts the data: name is required.
CompanyValid(data) == "name" \in DOMAIN data /\ data["name"] # None

\* CompanyUpdate with a slip: model_dump() without exclude_unset, so that the
\* fields the body leaves out are dumped as None.
CompanyUpdateDumpAll(body) ==
    Restrict(body, CompanyBaseFields) @@ [f \in CompanyBaseFields |-> None]

\* CompanyUpdate with a slip: id is among the declared fields.
CompanyUpdateWithId(body) == Restrict(body, CompanyBaseFields \cup {"id"})

\* CompanyUpdate(**body).model_dump(exclude_unset=True): the declared fields set.
CompanyUpdate(body) == Restrict(body, CompanyBaseFields)

\* The least identifier of a set, standing for all of them; none if it is empty.
Least(ids) == IF ids = {} THEN {} ELSE {CHOOSE i \in ids : \A j \in ids : i <= j}

\* The identifiers uuid4() may return: any key in use, an identifier that was
\* a key and no longer is, or an identifier that has never been a key.
\* Identifiers are opaque, so the least one of each kind stands for its kind.
Uuid4(ids, used, was_used) ==
    used \cup Least(was_used \ used) \cup Least(ids \ was_used)

\* What the default factories of a Read model may produce for the fields the
\* data leave out: uuid4 any identifier, utcnow the clock, read once per field.
Defaults(data, ids) ==
    { g \in [id : ids, created_at : {now}, updated_at : now..Min(now + 1, MaxClock)] :
        /\ ("id" \in DOMAIN data => g.id = data["id"])
        /\ ("created_at" \in DOMAIN data \/ "updated_at" \in DOMAIN data
                => g.updated_at = now) }

\* The clock after the constructor has run its default factories.
ClockAfter(data, g) == IF "updated_at" \in DOMAIN data THEN now ELSE g.updated_at

\* CompanyRead(**data): declared fields, undeclared keys ignored, defaults g.
CompanyRead(data, g) ==
    Restrict(data, CompanyReadFields) @@ g @@ [f \in CompanyBaseFields |-> None]

\* ------------------------------------------------ models/employee.py
EmployeeRequired ==
    {"employee_id", "first_name", "last_name", "email", "phone", "department",
     "team", "yearsofexp"}
EmployeeBaseFields == EmployeeRequired \cup {"birth_date", "companies"}
EmployeeCreateFields == EmployeeBaseFields \cup {"company_ids"}
EmployeeUpdateFields == (EmployeeBaseFields \ {"companies"}) \cup {"company_ids"}
EmployeeReadFields == EmployeeBaseFields \cup {"id", "created_at", "updated_at"}

\* EmployeeCreate(**body): declared fields only, optional ones default to None.
EmployeeCreate(body) ==
    Restrict(body, EmployeeCreateFields) @@ [f \in EmployeeCreateFields |-> None]

\* Whether EmployeeBase validation accepts the data: the required fields.
EmployeeValid(data) ==
    \A f \in EmployeeRequired \ {"yearsofexp"} : f \in DOMAIN data /\ data[f] # None

\* Whether EmployeeCreate validation accepts the body: company_ids is required.
EmployeeCreateValid(body) ==
    /\ EmployeeValid(body)
    /\ "yearsofexp" \in DOMAIN body
    /\ "company_ids" \in DOMAIN body
    /\ body["company_ids"] # None

\* EmployeeUpdate(**body).model_dump(exclude_unset=True): the declared fields set.
EmployeeUpdate(body) == Restrict(body, EmployeeUpdateFields)

\* EmployeeRead(**data): declared fields, undeclared keys ignored, defaults g;
\* companies defaults to the empty list.
EmployeeRead(data, g) ==
    Restrict(data, EmployeeReadFields) @@ g @@ [companies |-> <<>>, birth_date |-> None]

\* ------------------------------------------------------ request bodies
CompanyBodies ==
    { [id |-> 2, name |-> "Acme"],
      [name |-> "Globex", website |-> "https://globex.com/", industry |-> "Banking",
       founded |-> "1999-04-01", size |-> "51-200"],
      [industry |-> "Banking"] }

CompanyUpdateBodies ==
    { EmptyDict,
      [name |-> "Initech"],
      [id |-> 1, industry |-> None, size |-> "500+"],
      [name |-> None] }

\* The company_ids a request may carry.
LinkLists == { <<>>, <<1>>, <<1, 2, 1>>, <<2, 1, 3>> }

Ada ==
    [employee_id |-> "AD123", first_name |-> "Ada", last_name |-> "Lovelace",
     email |-> "ada@example.com", phone |-> "+1-212-555-0199",
     birth_date |-> "1815-12-10", department |-> "Eng", team |-> "Core",
     yearsofexp |-> 2]

\* A body that also carries an id and a companies list of its own.
Grace ==
    [id |-> 1, employee_id |-> "JD567", first_name |-> "Grace", last_name |-> "Hopper",
     email |-> "grace.hopper@navy.mil", phone |-> "+1-202-555-0101",
     department |-> "Sales", team |-> "Recruiting", yearsofexp |-> 6,
     companies |-> << [id |-> 3, name |-> "Hooli", website |-> None, industry |-> None,
                       founded |-> None, size |-> None, created_at |-> 0,
                       updated_at |-> 0] >>]

EmployeeBodies ==
    { DictSet(b, "company_ids", l) : b \in {Ada, Grace}, l \in LinkLists }
    \cup { Ada }

EmployeeUpdateBodies ==
    { EmptyDict,
      [id |-> 2, department |-> "Sales", birth_date |-> None],
      [first_name |-> None] }
    \cup { [company_ids |-> l] : l \in LinkLists }
    \cup { [team |-> "Infra", company_ids |-> <<2, 1>>] }

\* The query parameters a list request may carry.
CompanyQueries ==
    { EmptyDict, [name |-> "Acme"], [industry |-> "Banking", size |-> "51-200"] }

EmployeeQueries ==
    { EmptyDict,
      [department |-> "Eng", min_years_of_exp |-> 5],
      [company_name |-> "Acme", min_years_of_exp |-> 2],
      [first_name |-> "Grace", team |-> "Recruiting"] }

\* ------------------------------------------------------------ history
NoResult == <<>>

Response(op, id, body, status, result) ==
    [op |-> op, id |-> id, body |-> body, status |-> status, result |-> result]

\* No request is being served: the last response has been delivered.
Idle == Response("idle", 0, EmptyDict, "OK", NoResult)

Stores == [companies |-> companies, employees |-> employees]

\* A request that changed nothing.
Unchanged(op, id, body, status, result) ==
    /\ last' = Response(op, id, body, status, result)
    /\ pre' = Stores
    /\ UNCHANGED <<companies, employees, order, issued, now, budget, th>>

\* A request that wrote the dictionaries.
Wrote(op, id, body, status, result, cs, es, clock) ==
    /\ budget > 0
    /\ last' = Response(op, id, body, status, result)
    /\ pre' = Stores
    /\ companies' = cs
    /\ employees' = es
    /\ order' = [companies |-> KeysAfter(order.companies, cs),
                 employees |-> KeysAfter(order.employees, es)]
    /\ issued' = [companies |-> issued.companies \cup DOMAIN cs,
                  employees |-> issued.employees \cup DOMAIN es]
    /\ now' = clock
    /\ budget' = budget - 1
    /\ UNCHANGED th

\* A worker thread that serves no request.
IdleThread ==
    [pc |-> "idle", op |-> "none", id |-> 0, body |-> EmptyDict, status |-> "OK",
     value |-> EmptyDict, seen |-> EmptyDict, i |-> 0, n |-> 0, pruned |-> {}]

\* ------------------------------------------------------------- Init
Init ==
    /\ companies = EmptyDict
    /\ employees = EmptyDict
    /\ order = [companies |-> <<>>, employees |-> <<>>]
    /\ issued = [companies |-> {}, employees |-> {}]
    /\ now = 0
    /\ budget = MaxOps
    /\ pre = [companies |-> EmptyDict, employees |-> EmptyDict]
    /\ last = Idle
    /\ th = [t \in Threads |-> IdleThread]

\* The response of the last request is delivered to its caller.
Return ==
    /\ last # Idle
    /\ last' = Idle
    /\ pre' = [companies |-> EmptyDict, employees |-> EmptyDict]
    /\ UNCHANGED <<companies, employees, order, issued, now, budget, th>>

\* datetime.utcnow advances between requests.
Tick ==
    /\ last = Idle
    /\ now < MaxClock
    /\ now' = now + 1
    /\ UNCHANGED <<companies, employees, order, issued, budget, pre, last, th>>

\* ------------------------------------------------- company endpoints
\* POST /companies
create_company(body) ==
    /\ last = Idle
    /\ IF ~CompanyValid(body)
       THEN Unchanged("create_company", 0, body, "ValidationError", NoResult)
       ELSE LET data == CompanyCreate(body) IN
            \E g \in Defaults(data, Uuid4(CompanyIds, DOMAIN companies, issued.companies)) :
               LET company_read == CompanyRead(data, g) IN
               IF company_read.id \in DOMAIN companies
               THEN Unchanged("create_company", company_read.id, body, "Conflict", NoResult)
               ELSE Wrote("create_company", company_read.id, body, "OK", <<company_read>>,
                          DictSet(companies, company_read.id, company_read),
                          employees, ClockAfter(data, g))

\* GET /companies
list_companies(q) ==
    /\ last = Idle
    /\ LET all == Values(companies, order.companies)
           by_name == IF "name" \in DOMAIN q
                      THEN SelectSeq(all, LAMBDA c : c.name = q.name) ELSE all
           by_industry == IF "industry" \in DOMAIN q
                          THEN SelectSeq(by_name, LAMBDA c : c.industry = q.industry)
                          ELSE by_name
           results == IF "size" \in DOMAIN q
                      THEN SelectSeq(by_industry, LAMBDA c : c.size = q.size)
                      ELSE by_industry
       IN  Unchanged("list_companies", 0, q, "OK", results)

\* GET /companies/{company_id}
get_company(company_id) ==
    /\ last = Idle
    /\ IF company_id \notin DOMAIN companies
       THEN Unchanged("get_company", company_id, EmptyDict, "NotFound", NoResult)
       ELSE Unchanged("get_company", company_id, EmptyDict, "OK", <<companies[company_id]>>)

\* update_company with a slip: the snapshots of the company that employees
\* embed are refreshed with the updated record.
update_company_refresh(company_id, body) ==
    /\ last = Idle
    /\ IF company_id \notin DOMAIN companies
       THEN Unchanged("update_company", company_id, body, "NotFound", NoResult)
       ELSE LET stored == DictUpdate(companies[company_id], CompanyUpdate(body)) IN
            IF ~CompanyValid(stored)
            THEN Unchanged("update_company", company_id, body, "InternalError", NoResult)
            ELSE \E g \in Defaults(stored, CompanyIds) :
                   LET company_read == CompanyRead(stored, g) IN
                   Wrote("update_company", company_id, body, "OK", <<company_read>>,
                         DictSet(companies, company_id, company_read),
                         [e \in DOMAIN employees |->
                            [employees[e] EXCEPT !.companies =
                               [i \in DOMAIN employees[e].companies |->
                                  IF employees[e].companies[i].id = company_id
                                  THEN company_read ELSE employees[e].companies[i]]]],
                         ClockAfter(stored, g))

\* PATCH /companies/{company_id}
update_company(company_id, body) ==
    /\ last = Idle
    /\ IF company_id \notin DOMAIN companies
       THEN Unchanged("update_company", company_id, body, "NotFound", NoResult)
       ELSE LET stored == DictUpdate(companies[company_id], CompanyUpdate(body)) IN
            IF ~CompanyValid(stored)
            THEN Unchanged("update_company", company_id, body, "InternalError", NoResult)
            ELSE \E g \in Defaults(stored, CompanyIds) :
                   LET company_read == CompanyRead(stored, g) IN
                   Wrote("update_company", company_id, body, "OK", <<company_read>>,
                         DictSet(companies, company_id, company_read),
                         employees, ClockAfter(stored, g))

\* replace_company with a slip: the body is merged over the stored record.
replace_company_merge(company_id, body) ==
    /\ last = Idle
    /\ IF ~CompanyValid(body)
       THEN Unchanged("replace_company", company_id, body, "ValidationError", NoResult)
       ELSE IF company_id \notin DOMAIN companies
       THEN Unchanged("replace_company", company_id, body, "NotFound", NoResult)
       ELSE LET company_read ==
                    DictUpdate(companies[company_id], Restrict(body, CompanyBaseFields))
            IN  Wrote("replace_company", company_id, body, "OK", <<company_read>>,
                      DictSet(companies, company_id, company_read), employees, now)

\* PUT /companies/{company_id}
replace_company(company_id, body) ==
    /\ last = Idle
    /\ IF ~CompanyValid(body)
       THEN Unchanged("replace_company", company_id, body, "ValidationError", NoResult)
       ELSE IF company_id \notin DOMAIN companies
       THEN Unchanged("replace_company", company_id, body, "NotFound", NoResult)
       ELSE LET company_data == DictSet(CompanyCreate(body), "id", company_id) IN
            \E g \in Defaults(company_data, CompanyIds) :
               LET company_read == CompanyRead(company_data, g) IN
               Wrote("replace_company", company_id, body, "OK", <<company_read>>,
                     DictSet(companies, company_id, company_read),
                     employees, ClockAfter(company_data, g))

\* Prune with a slip: only the first snapshot of the company is removed.
RECURSIVE WithoutFirst(_, _)
WithoutFirst(cs, company_id) ==
    IF cs = <<>> THEN <<>>
    ELSE IF Head(cs).id = company_id THEN Tail(cs)
    ELSE <<Head(cs)>> \o WithoutFirst(Tail(cs), company_id)

PruneFirstOnly(emp, company_id) ==
    IF \E i \in DOMAIN emp.companies : emp.companies[i].id = company_id
    THEN [emp EXCEPT !.companies = WithoutFirst(emp.companies, company_id)]
    ELSE emp

\* Prune with a slip: every snapshot is removed, whatever its company.
PruneAll(emp, company_id) == [emp EXCEPT !.companies = <<>>]

\* The cascade of delete_company on one employee: the record rebuilt without
\* the snapshots of the company, or the record itself when it has none.
Prune(emp, company_id) ==
    LET updated_companies == SelectSeq(emp.companies, LAMBDA c : c.id # company_id) IN
    IF Len(updated_companies) # Len(emp.companies)
    THEN LET emp_dict == DictSet(emp, "companies", updated_companies) IN
         EmployeeRead(emp_dict, CHOOSE g \in Defaults(emp_dict, EmployeeIds) : TRUE)
    ELSE emp

\* delete_company with a slip: the employees are left as they are.
delete_company_no_cascade(company_id) ==
    /\ last = Idle
    /\ IF company_id \notin DOMAIN companies
       THEN Unchanged("delete_company", company_id, EmptyDict, "NotFound", NoResult)
       ELSE Wrote("delete_company", company_id, EmptyDict, "OK", NoResult,
                  DictPop(companies, company_id), employees, now)

\* DELETE /companies/{company_id}
delete_company(company_id) ==
    /\ last = Idle
    /\ IF company_id \notin DOMAIN companies
       THEN Unchanged("delete_company", company_id, EmptyDict, "NotFound", NoResult)
       ELSE Wrote("delete_company", company_id, EmptyDict, "OK", NoResult,
                  DictPop(companies, company_id),
                  [emp_id \in DOMAIN employees |-> Prune(employees[emp_id], company_id)],
                  now)

\* ------------------------------------------------ employee endpoints
\* The first company id of the list that is not in the companies dict, or 0.
RECURSIVE FirstMissing(_)
FirstMissing(company_ids) ==
    IF company_ids = <<>> THEN 0
    ELSE IF Head(company_ids) \notin DOMAIN companies THEN Head(company_ids)
    ELSE FirstMissing(Tail(company_ids))

\* Linked with a slip: a company that the list names again is linked once.
RECURSIVE Distinct(_)
Distinct(ids) ==
    IF ids = <<>> THEN <<>>
    ELSE LET front == Distinct(SubSeq(ids, 1, Len(ids) - 1)) IN
         IF \E i \in DOMAIN front : front[i] = ids[Len(ids)]
         THEN front ELSE Append(front, ids[Len(ids)])

LinkedOnce(company_ids) ==
    [i \in DOMAIN Distinct(company_ids) |-> companies[Distinct(company_ids)[i]]]

\* [companies[cid] for cid in company_ids]
Linked(company_ids) == [i \in DOMAIN company_ids |-> companies[company_ids[i]]]

\* create_employee with a slip: the record is stored without the check of
\* its identifier against the keys of the dictionary.
create_employee_overwrite(body) ==
    /\ last = Idle
    /\ IF ~EmployeeCreateValid(body)
       THEN Unchanged("create_employee", 0, body, "ValidationError", NoResult)
       ELSE LET employee == EmployeeCreate(body) IN
            IF FirstMissing(employee.company_ids) # 0
            THEN Unchanged("create_employee", 0, body, "NotFound", NoResult)
            ELSE LET employee_data == DictSet(DictPop(DictPop(employee, "company_ids"),
                                                      "companies"),
                                              "companies", Linked(employee.company_ids))
                 IN  \E g \in Defaults(employee_data,
                                       Uuid4(EmployeeIds, DOMAIN employees, issued.employees)) :
                        LET employee_read == EmployeeRead(employee_data, g) IN
                        Wrote("create_employee", employee_read.id, body, "OK",
                              <<employee_read>>, companies,
                              DictSet(employees, employee_read.id, employee_read),
                              ClockAfter(employee_data, g))

\* POST /employees
create_employee(body) ==
    /\ last = Idle
    /\ IF ~EmployeeCreateValid(body)
       THEN Unchanged("create_employee", 0, body, "ValidationError", NoResult)
       ELSE LET employee == EmployeeCreate(body) IN
            IF FirstMissing(employee.company_ids) # 0
            THEN Unchanged("create_employee", 0, body, "NotFound", NoResult)
            ELSE LET linked_companies == Linked(employee.company_ids)
                     employee_data == DictSet(DictPop(DictPop(employee, "company_ids"),
                                                      "companies"),
                                              "companies", linked_companies)
                 IN  \E g \in Defaults(employee_data, Uuid4(EmployeeIds, DOMAIN employees, issued.employees)) :
                        LET employee_read == EmployeeRead(employee_data, g) IN
                        IF employee_read.id \in DOMAIN employees
                        THEN Unchanged("create_employee", employee_read.id, body,
                                       "Conflict", NoResult)
                        ELSE Wrote("create_employee", employee_read.id, body, "OK",
                                   <<employee_read>>,
                                   companies,
                                   DictSet(employees, employee_read.id, employee_read),
                                   ClockAfter(employee_data, g))

\* FilterEq with a slip: the filter is not applied.
FilterEqIgnored(results, q, param, field) == results

\* One filter of list_employees: the elements equal to the query on a field,
\* or all of them when the query does not name the field.
FilterEq(results, q, param, field) ==
    IF param \in DOMAIN q
    THEN SelectSeq(results, LAMBDA e : e[field] = q[param])
    ELSE results

\* any(c.name == company_name for c in e.companies)
AnyCompanyNamed(e, company_name) ==
    \E i \in DOMAIN e.companies : e.companies[i].name = company_name

\* GET /employees
list_employees(q) ==
    /\ last = Idle
    /\ LET all == Values(employees, order.employees)
           r1 == FilterEq(all, q, "employee_id", "employee_id")
           r2 == FilterEq(r1, q, "first_name", "first_name")
           r3 == FilterEq(r2, q, "last_name", "last_name")
           r4 == FilterEq(r3, q, "email", "email")
           r5 == FilterEq(r4, q, "phone", "phone")
           r6 == FilterEq(r5, q, "department", "department")
           r7 == FilterEq(r6, q, "team", "team")
           r8 == IF "min_years_of_exp" \in DOMAIN q
                 THEN SelectSeq(r7, LAMBDA e : e.yearsofexp >= q.min_years_of_exp)
                 ELSE r7
           results == IF "company_name" \in DOMAIN q
                      THEN SelectSeq(r8, LAMBDA e : AnyCompanyNamed(e, q.company_name))
                      ELSE r8
       IN  Unchanged("list_employees", 0, q, "OK", results)

\* get_employee with a slip: the record is returned without its companies.
get_employee_no_companies(employee_id) ==
    /\ last = Idle
    /\ IF employee_id \notin DOMAIN employees
       THEN Unchanged("get_employee", employee_id, EmptyDict, "NotFound", NoResult)
       ELSE Unchanged("get_employee", employee_id, EmptyDict, "OK",
                      <<[employees[employee_id] EXCEPT !.companies = <<>>]>>)

\* GET /employees/{employee_id}
get_employee(employee_id) ==
    /\ last = Idle
    /\ IF employee_id \notin DOMAIN employees
       THEN Unchanged("get_employee", employee_id, EmptyDict, "NotFound", NoResult)
       ELSE Unchanged("get_employee", employee_id, EmptyDict, "OK",
                      <<employees[employee_id]>>)

\* update_employee with a slip: the fields are written before company_ids is
\* checked.
update_employee_write_first(employee_id, body) ==
    /\ last = Idle
    /\ IF employee_id \notin DOMAIN employees
       THEN Unchanged("update_employee", employee_id, body, "NotFound", NoResult)
       ELSE LET update_data == EmployeeUpdate(body)
                has_ids == "company_ids" \in DOMAIN update_data
                stored == DictUpdate(employees[employee_id],
                                     DictPop(update_data, "company_ids"))
            IN  IF ~EmployeeValid(stored)
                THEN Unchanged("update_employee", employee_id, body,
                               "InternalError", NoResult)
                ELSE IF has_ids /\ FirstMissing(update_data["company_ids"]) # 0
                THEN Wrote("update_employee", employee_id, body, "NotFound", NoResult,
                           companies, DictSet(employees, employee_id, stored), now)
                ELSE LET employee_read ==
                             IF has_ids
                             THEN DictSet(stored, "companies",
                                          Linked(update_data["company_ids"]))
                             ELSE stored
                     IN  Wrote("update_employee", employee_id, body, "OK",
                               <<employee_read>>, companies,
                               DictSet(employees, employee_id, employee_read), now)

\* PATCH /employees/{employee_id}
update_employee(employee_id, body) ==
    /\ last = Idle
    /\ IF employee_id \notin DOMAIN employees
       THEN Unchanged("update_employee", employee_id, body, "NotFound", NoResult)
       ELSE LET update_data == EmployeeUpdate(body)
                has_ids == "company_ids" \in DOMAIN update_data
            IN  IF has_ids /\ FirstMissing(update_data["company_ids"]) # 0
                THEN Unchanged("update_employee", employee_id, body, "NotFound", NoResult)
                ELSE LET linked == IF has_ids
                                   THEN DictSet(employees[employee_id], "companies",
                                                Linked(update_data["company_ids"]))
                                   ELSE employees[employee_id]
                         stored == DictUpdate(linked, DictPop(update_data, "company_ids"))
                     IN  IF ~EmployeeValid(stored)
                         THEN Unchanged("update_employee", employee_id, body,
                                        "InternalError", NoResult)
                         ELSE \E g \in Defaults(stored, EmployeeIds) :
                                LET employee_read == EmployeeRead(stored, g) IN
                                Wrote("update_employee", employee_id, body, "OK",
                                      <<employee_read>>, companies,
                                      DictSet(employees, employee_id, employee_read),
                                      ClockAfter(stored, g))

\* replace_employee with a slip: no check that the employee exists, so that
\* a record is stored under an unknown identifier.
replace_employee_upsert(employee_id, body) ==
    /\ last = Idle
    /\ IF ~EmployeeCreateValid(body)
       THEN Unchanged("replace_employee", employee_id, body, "ValidationError", NoResult)
       ELSE LET employee == EmployeeCreate(body) IN
            IF FirstMissing(employee.company_ids) # 0
            THEN Unchanged("replace_employee", employee_id, body, "NotFound", NoResult)
            ELSE LET popped == DictPop(DictPop(DictPop(employee, "company_ids"), "id"),
                                       "companies")
                     employee_data == DictSet(DictSet(popped, "id", employee_id),
                                              "companies", Linked(employee.company_ids))
                 IN  \E g \in Defaults(employee_data, EmployeeIds) :
                        LET employee_read == EmployeeRead(employee_data, g) IN
                        Wrote("replace_employee", employee_id, body, "OK",
                              <<employee_read>>, companies,
                              DictSet(employees, employee_id, employee_read),
                              ClockAfter(employee_data, g))

\* PUT /employees/{employee_id}
replace_employee(employee_id, body) ==
    /\ last = Idle
    /\ IF ~EmployeeCreateValid(body)
       THEN Unchanged("replace_employee", employee_id, body, "ValidationError", NoResult)
       ELSE IF employee_id \notin DOMAIN employees
       THEN Unchanged("replace_employee", employee_id, body, "NotFound", NoResult)
       ELSE LET employee == EmployeeCreate(body) IN
            IF FirstMissing(employee.company_ids) # 0
            THEN Unchanged("replace_employee", employee_id, body, "NotFound", NoResult)
            ELSE LET linked_companies == Linked(employee.company_ids)
                     popped == DictPop(DictPop(DictPop(employee, "company_ids"), "id"),
                                       "companies")
                     employee_data == DictSet(DictSet(popped, "id", employee_id),
                                              "companies", linked_companies)
                 IN  \E g \in Defaults(employee_data, EmployeeIds) :
                        LET employee_read == EmployeeRead(employee_data, g) IN
                        Wrote("replace_employee", employee_id, body, "OK",
                              <<employee_read>>, companies,
                              DictSet(employees, employee_id, employee_read),
                              ClockAfter(employee_data, g))

\* delete_employee with a slip: the dictionary is cleared.
delete_employee_clear(employee_id) ==
    /\ last = Idle
    /\ IF employee_id \notin DOMAIN employees
       THEN Unchanged("delete_employee", employee_id, EmptyDict, "NotFound", NoResult)
       ELSE Wrote("delete_employee", employee_id, EmptyDict, "OK", NoResult,
                  companies, EmptyDict, now)

\* DELETE /employees/{employee_id}
delete_employee(employee_id) ==
    /\ last = Idle
    /\ IF employee_id \notin DOMAIN employees
       THEN Unchanged("delete_employee", employee_id, EmptyDict, "NotFound", NoResult)
       ELSE Wrote("delete_employee", employee_id, EmptyDict, "OK", NoResult,
                  companies, DictPop(employees, employee_id), now)

\* The identifiers a request path may name: every key in use and, standing
\* for all the others, one identifier that is not in use.
CompanyPathIds == Uuid4(CompanyIds, DOMAIN companies, issued.companies)
EmployeePathIds == Uuid4(EmployeeIds, DOMAIN employees, issued.employees)

Next ==
    \/ Return
    \/ Tick
    \/ \E body \in CompanyBodies : create_company(body)
    \/ \E q \in CompanyQueries : list_companies(q)
    \/ \E id \in CompanyPathIds : get_company(id)
    \/ \E id \in CompanyPathIds, body \in CompanyUpdateBodies : update_company(id, body)
    \/ \E id \in CompanyPathIds, body \in CompanyBodies : replace_company(id, body)
    \/ \E id \in CompanyPathIds : delete_company(id)
    \/ \E body \in EmployeeBodies : create_employee(body)
    \/ \E q \in EmployeeQueries : list_employees(q)
    \/ \E id \in EmployeePathIds : get_employee(id)
    \/ \E id \in EmployeePathIds, body \in EmployeeUpdateBodies : update_employee(id, body)
    \/ \E id \in EmployeePathIds, body \in EmployeeBodies : replace_employee(id, body)
    \/ \E id \in EmployeePathIds : delete_employee(id)

Spec == Init /\ [][Next]_vars

\* ---------------------------------------------------------------------
\* The cascade of delete_company on a populated store: up to three companies
\* and two employees are created, linked and deleted, with the clock standing
\* at its last value.
CascadeBodies == { DictSet(b, "company_ids", l) : b \in {Ada, Grace}, l \in LinkLists }

InitCascade ==
    /\ companies = EmptyDict
    /\ employees = EmptyDict
    /\ order = [companies |-> <<>>, employees |-> <<>>]
    /\ issued = [companies |-> {}, employees |-> {}]
    /\ now = MaxClock
    /\ budget = MaxCascadeOps
    /\ pre = [companies |-> EmptyDict, employees |-> EmptyDict]
    /\ last = Idle
    /\ th = [t \in Threads |-> IdleThread]

NextCascade ==
    \/ Return
    \/ create_company([name |-> "Acme"])
    \/ \E id \in CompanyPathIds : update_company(id, [name |-> "Initech"])
    \/ \E id \in CompanyPathIds : delete_company(id)
    \/ \E body \in CascadeBodies : create_employee(body)

SpecCascade == InitCascade /\ [][NextCascade]_vars

\* ---------------------------------------------------------------------
\* The list requests on a populated store: up to two companies and three
\* employees are created, and listed under combinations of the filters.
Alan ==
    [employee_id |-> "AT456", first_name |-> "Alan", last_name |-> "Turing",
     email |-> "alan@example.com", phone |-> "+44-20-5550-0100",
     department |-> "Eng", team |-> "Core", yearsofexp |-> 6]

ListBodies == { DictSet(b, "company_ids", l) : b \in {Ada, Alan, Grace}, l \in {<<>>, <<1>>} }

ListCompanyBodies ==
    { [name |-> "Acme", industry |-> "Banking"],
      [name |-> "Globex", industry |-> "Banking", size |-> "51-200"] }

\* Every combination of supplied and absent parameters of some requests.
Combinations(queries) ==
    UNION { { Restrict(q, params) : params \in SUBSET DOMAIN q } : q \in queries }

ListCompanyQueries ==
    Combinations({ [name |-> "Acme", industry |-> "Banking", size |-> "51-200"],
                   [name |-> "Globex", industry |-> "Banking", size |-> "51-200"] })

ListEmployeeQueries ==
    Combinations({ [department |-> "Eng", min_years_of_exp |-> 5, company_name |-> "Acme"],
                   [department |-> "Sales", min_years_of_exp |-> 6, team |-> "Recruiting"],
                   [first_name |-> "Ada", department |-> "Eng", min_years_of_exp |-> 2,
                    company_name |-> "Acme"],
                   [employee_id |-> "AT456", last_name |-> "Turing",
                    email |-> "alan@example.com", phone |-> "+44-20-5550-0100"] })

InitList ==
    /\ companies = EmptyDict
    /\ employees = EmptyDict
    /\ order = [companies |-> <<>>, employees |-> <<>>]
    /\ issued = [companies |-> {}, employees |-> {}]
    /\ now = MaxClock
    /\ budget = MaxListOps
    /\ pre = [companies |-> EmptyDict, employees |-> EmptyDict]
    /\ last = Idle
    /\ th = [t \in Threads |-> IdleThread]

NextList ==
    \/ Return
    \/ \E body \in ListCompanyBodies : create_company(body)
    \/ \E body \in ListBodies : create_employee(body)
    \/ \E q \in ListCompanyQueries : list_companies(q)
    \/ \E q \in ListEmployeeQueries : list_employees(q)

SpecList == InitList /\ [][NextList]_vars

\* ---------------------------------------------------------------------
\* The linking of employees to companies: companies are created and renamed,
\* and an employee is created, updated and replaced with lists of company ids.
LinkBodies == { DictSet(Ada, "company_ids", l) : l \in LinkLists }

LinkReplaceBodies == { DictSet(Grace, "company_ids", l) : l \in {<<>>, <<1, 2, 1>>} }

LinkUpdateBodies ==
    { [company_ids |-> l] : l \in LinkLists }
    \cup { [team |-> "Infra"], [team |-> "Infra", company_ids |-> <<2, 1>>] }

InitLink ==
    /\ companies = EmptyDict
    /\ employees = EmptyDict
    /\ order = [companies |-> <<>>, employees |-> <<>>]
    /\ issued = [companies |-> {}, employees |-> {}]
    /\ now = MaxClock
    /\ budget = MaxLinkOps
    /\ pre = [companies |-> EmptyDict, employees |-> EmptyDict]
    /\ last = Idle
    /\ th = [t \in Threads |-> IdleThread]

NextLink ==
    \/ Return
    \/ create_company([name |-> "Acme"])
    \/ \E id \in CompanyPathIds : update_company(id, [name |-> "Initech"])
    \/ \E body \in LinkBodies : create_employee(body)
    \/ \E id \in EmployeePathIds, body \in LinkUpdateBodies : update_employee(id, body)
    \/ \E id \in EmployeePathIds, body \in LinkReplaceBodies : replace_employee(id, body)

SpecLink == InitLink /\ [][NextLink]_vars

\* ---------------------------------------------------------------------
\* Requests served concurrently.  The handlers are plain functions, which the
\* framework runs on worker threads, and they take no lock: a thread may be
\* preempted between any two reads or writes of the dictionaries.  Each
\* thread serves one request in the steps below; the requests of Next that
\* SpecConc keeps are served in one step, with no preemption.

\* A step of thread t that leaves the thread record r.
ThreadStep(t, r, cs, es) ==
    /\ th' = [th EXCEPT ![t] = r]
    /\ companies' = cs
    /\ employees' = es
    /\ order' = [companies |-> KeysAfter(order.companies, cs),
                 employees |-> KeysAfter(order.employees, es)]
    /\ issued' = [companies |-> issued.companies \cup DOMAIN cs,
                  employees |-> issued.employees \cup DOMAIN es]
    /\ UNCHANGED <<now, budget, pre, last>>

Raise(r, status) == [r EXCEPT !.pc = "done", !.status = status]

\* delete_company, lines 110-113: the check, and the iterator over employees.
delete_company_begin(t, company_id) ==
    /\ last = Idle
    /\ th[t].pc = "idle"
    /\ LET r == [IdleThread EXCEPT !.op = "delete_company", !.id = company_id] IN
       IF company_id \notin DOMAIN companies
       THEN ThreadStep(t, Raise(r, "NotFound"), companies, employees)
       ELSE ThreadStep(t, [r EXCEPT !.pc = "cascade", !.i = 1,
                                    !.n = Cardinality(DOMAIN employees),
                                    !.seen = employees],
                       companies, employees)

\* delete_company, lines 113-118: one turn of the loop.  The iterator raises
\* RuntimeError when the dictionary has changed size since the loop began.
delete_company_loop(t) ==
    /\ last = Idle
    /\ th[t].pc = "cascade"
    /\ LET r == th[t] IN
       IF Cardinality(DOMAIN employees) # r.n
       THEN ThreadStep(t, Raise(r, "InternalError"), companies, employees)
       ELSE IF r.i > r.n
       THEN ThreadStep(t, [r EXCEPT !.pc = "del"], companies, employees)
       ELSE LET emp_id == order.employees[r.i]
                emp == Prune(employees[emp_id], r.id)
            IN  ThreadStep(t, [r EXCEPT !.i = r.i + 1,
                                        !.pruned = IF emp # employees[emp_id]
                                                   THEN r.pruned \cup {emp_id}
                                                   ELSE r.pruned],
                           companies, [employees EXCEPT ![emp_id] = emp])

\* delete_company, line 119: del companies[company_id].
delete_company_del(t) ==
    /\ last = Idle
    /\ th[t].pc = "del"
    /\ IF th[t].id \notin DOMAIN companies
       THEN ThreadStep(t, Raise(th[t], "InternalError"), companies, employees)
       ELSE ThreadStep(t, Raise(th[t], "OK"), DictPop(companies, th[t].id), employees)

\* create_employee, lines 129-140: the company_ids are checked and linked and
\* the record is built.
create_employee_begin(t, body) ==
    /\ last = Idle
    /\ th[t].pc = "idle"
    /\ EmployeeCreateValid(body)
    /\ LET r == [IdleThread EXCEPT !.op = "create_employee", !.body = body]
           employee == EmployeeCreate(body)
       IN  IF FirstMissing(employee.company_ids) # 0
           THEN ThreadStep(t, Raise(r, "NotFound"), companies, employees)
           ELSE LET employee_data ==
                        DictSet(DictPop(DictPop(employee, "company_ids"), "companies"),
                                "companies", Linked(employee.company_ids))
                IN  \E g \in Defaults(employee_data, Uuid4(EmployeeIds, DOMAIN employees, issued.employees)) :
                        ThreadStep(t, [r EXCEPT !.pc = "write",
                                                !.value = EmployeeRead(employee_data, g)],
                                   companies, employees)

\* create_employee, lines 142-146: the record is stored unless its id is taken.
create_employee_write(t) ==
    /\ last = Idle
    /\ th[t].pc = "write"
    /\ th[t].op = "create_employee"
    /\ IF th[t].value.id \in DOMAIN employees
       THEN ThreadStep(t, Raise(th[t], "Conflict"), companies, employees)
       ELSE ThreadStep(t, Raise(th[t], "OK"), companies,
                       DictSet(employees, th[t].value.id, th[t].value))

\* update_employee, lines 191-207: the stored record is dumped, the
\* company_ids are checked and linked, and the update is merged over the dump.
update_employee_begin(t, employee_id, body) ==
    /\ last = Idle
    /\ th[t].pc = "idle"
    /\ LET r == [IdleThread EXCEPT !.op = "update_employee", !.id = employee_id,
                                   !.body = body]
           update_data == EmployeeUpdate(body)
           has_ids == "company_ids" \in DOMAIN update_data
       IN  IF employee_id \notin DOMAIN employees
           THEN ThreadStep(t, Raise(r, "NotFound"), companies, employees)
           ELSE IF has_ids /\ FirstMissing(update_data["company_ids"]) # 0
           THEN ThreadStep(t, Raise(r, "NotFound"), companies, employees)
           ELSE LET linked == IF has_ids
                              THEN DictSet(employees[employee_id], "companies",
                                           Linked(update_data["company_ids"]))
                              ELSE employees[employee_id]
                    stored == DictUpdate(linked, DictPop(update_data, "company_ids"))
                IN  ThreadStep(t, [r EXCEPT !.pc = "write", !.value = stored],
                               companies, employees)

\* update_employee, lines 208-209: the record is rebuilt and stored.
update_employee_write(t) ==
    /\ last = Idle
    /\ th[t].pc = "write"
    /\ th[t].op = "update_employee"
    /\ IF ~EmployeeValid(th[t].value)
       THEN ThreadStep(t, Raise(th[t], "InternalError"), companies, employees)
       ELSE \E g \in Defaults(th[t].value, EmployeeIds) :
               ThreadStep(t, Raise(th[t], "OK"), companies,
                          DictSet(employees, th[t].id, EmployeeRead(th[t].value, g)))

ConcBodies == { DictSet(b, "company_ids", <<1>>) : b \in {Ada, Grace} }

ConcUpdateBodies ==
    { [department |-> "Sales"], [team |-> "Infra"], [company_ids |-> <<1>>] }

InitConc ==
    /\ companies = EmptyDict
    /\ employees = EmptyDict
    /\ order = [companies |-> <<>>, employees |-> <<>>]
    /\ issued = [companies |-> {}, employees |-> {}]
    /\ now = MaxClock
    /\ budget = MaxConcOps
    /\ pre = [companies |-> EmptyDict, employees |-> EmptyDict]
    /\ last = Idle
    /\ th = [t \in Threads |-> IdleThread]

NextConc ==
    \/ Return
    \/ create_company([name |-> "Acme"])
    \/ \E body \in ConcBodies : create_employee(body)
    \/ list_employees(EmptyDict)
    \/ \E id \in CompanyPathIds : get_company(id)
    \/ \E t \in Threads, id \in CompanyPathIds : delete_company_begin(t, id)
    \/ \E t \in Threads : delete_company_loop(t)
    \/ \E t \in Threads : delete_company_del(t)
    \/ \E t \in Threads, body \in ConcBodies : create_employee_begin(t, body)
    \/ \E t \in Threads : create_employee_write(t)
    \/ \E t \in Threads, id \in EmployeePathIds, body \in ConcUpdateBodies :
          update_employee_begin(t, id, body)
    \/ \E t \in Threads : update_employee_write(t)

SpecConc == InitConc /\ [][NextConc]_vars

\* =====================================================================
\* Properties.  Each is a predicate on the state a request leaves: pre holds
\* the dictionaries before the request, last the request and its response.

Served(ops) == last.op \in ops /\ last.status = "OK"

\* The snapshots of a list other than those of one company, in their order.
RECURSIVE Without(_, _)
Without(cs, company_id) ==
    IF cs = <<>> THEN <<>>
    ELSE IF Head(cs).id = company_id THEN Without(Tail(cs), company_id)
    ELSE <<Head(cs)>> \o Without(Tail(cs), company_id)

Holds(emp, company_id) == \E i \in DOMAIN emp.companies : emp.companies[i].id = company_id

Count(emp, company_id) ==
    Cardinality({i \in DOMAIN emp.companies : emp.companies[i].id = company_id})

\* C1: after a successful Company Delete(C), C is not a key of the Company
\* store (so Get(C) fails NotFound), no Employee holds a snapshot with id C,
\* and every Employee has the other snapshots it had, in their order, and
\* every other field as before the delete.
C1_DeleteCascade ==
    Served({"delete_company"}) =>
        /\ last.id \in DOMAIN pre.companies
        /\ last.id \notin DOMAIN companies
        /\ DOMAIN employees = DOMAIN pre.employees
        /\ \A e \in DOMAIN employees :
              /\ ~Holds(employees[e], last.id)
              /\ employees[e].companies = Without(pre.employees[e].companies, last.id)
              /\ \A f \in EmployeeReadFields \ {"companies"} :
                    employees[e][f] = pre.employees[e][f]

\* C1: a delete of a company that two employees held, one of them twice, and
\* that left one of them two snapshots of different companies.
C1_Witness ==
    /\ Served({"delete_company"})
    /\ \E e1, e2 \in DOMAIN pre.employees :
          /\ e1 # e2
          /\ Count(pre.employees[e1], last.id) >= 2
          /\ Count(pre.employees[e2], last.id) >= 1
          /\ Len(employees[e2].companies) = 2
          /\ employees[e2].companies[1].id # employees[e2].companies[2].id

\* C2: between requests served one at a time, every snapshot embedded in an
\* Employee has an id that is a key of the Company store.
C2_NoDanglingReference ==
    \A e \in DOMAIN employees :
        \A i \in DOMAIN employees[e].companies :
            employees[e].companies[i].id \in DOMAIN companies

\* C2: a company that an employee held has been deleted.
C2_Witness ==
    /\ Served({"delete_company"})
    /\ \E e \in DOMAIN employees : Holds(pre.employees[e], last.id)

\* Whether an Employee request names a company that is not in the store.
NamesMissingCompany ==
    /\ last.op \in {"create_employee", "update_employee", "replace_employee"}
    /\ last.op \in {"create_employee", "replace_employee"} => EmployeeCreateValid(last.body)
    /\ "company_ids" \in DOMAIN last.body
    /\ \E i \in DOMAIN last.body.company_ids :
          last.body.company_ids[i] \notin DOMAIN pre.companies

\* C3: an Employee Create, PartialUpdate or Replace whose company_ids names a
\* company that is not in the Company store fails with NotFound and leaves
\* both stores as they were.
C3_MissingCompanyRejected ==
    NamesMissingCompany =>
        /\ last.status = "NotFound"
        /\ last.result = NoResult
        /\ companies = pre.companies
        /\ employees = pre.employees

\* C3: a PartialUpdate of an existing employee that holds a company, with
\* other fields to write and company_ids that names a company in the store
\* and one that is not.
C3_Witness ==
    /\ NamesMissingCompany
    /\ last.op = "update_employee"
    /\ last.id \in DOMAIN employees
    /\ employees[last.id].companies # <<>>
    /\ "team" \in DOMAIN last.body
    /\ \E i \in DOMAIN last.body.company_ids :
          last.body.company_ids[i] \in DOMAIN pre.companies

\* The record a PartialUpdate, Replace or cascade wrote, and the one it replaced.
Target == IF last.op \in {"update_company", "replace_company"}
          THEN companies[last.id] ELSE employees[last.id]
Before == IF last.op \in {"update_company", "replace_company"}
          THEN pre.companies[last.id] ELSE pre.employees[last.id]

\* C7: after a successful PartialUpdate made when the clock has advanced
\* since the record's previous write, updated_at is the clock's value and
\* differs from the updated_at before the update.
C7_UpdatedAtRefreshed ==
    (Served({"update_company", "update_employee"}) /\ now > Before.updated_at) =>
        /\ Target.updated_at = now
        /\ Target.updated_at # Before.updated_at

\* C8: a record that a request leaves in its store keeps its created_at.
C8_CreatedAtImmutable ==
    last # Idle =>
        /\ \A k \in DOMAIN companies \cap DOMAIN pre.companies :
              companies[k].created_at = pre.companies[k].created_at
        /\ \A k \in DOMAIN employees \cap DOMAIN pre.employees :
              employees[k].created_at = pre.employees[k].created_at

\* The value of a body for a field: None when the body leaves it out.
BodyValue(body, f) == IF f \in DOMAIN body THEN body[f] ELSE None

\* C9: a successful Replace stores under the target key a record whose id is
\* the key and whose other fields are the body's (None for an optional field
\* the body leaves out; an Employee's companies the current records of its
\* company_ids, in order), and leaves the keys of the store as they were.
C9_ReplaceOverwrites ==
    /\ Served({"replace_company"}) =>
          /\ DOMAIN companies = DOMAIN pre.companies
          /\ companies[last.id].id = last.id
          /\ \A f \in CompanyBaseFields :
                companies[last.id][f] = BodyValue(last.body, f)
          /\ last.result = <<companies[last.id]>>
    /\ Served({"replace_employee"}) =>
          /\ DOMAIN employees = DOMAIN pre.employees
          /\ employees[last.id].id = last.id
          /\ \A f \in EmployeeBaseFields \ {"companies"} :
                employees[last.id][f] = BodyValue(last.body, f)
          /\ employees[last.id].companies =
                [i \in DOMAIN last.body.company_ids |->
                    pre.companies[last.body.company_ids[i]]]
          /\ last.result = <<employees[last.id]>>

\* C9: a Replace of a company that had an industry by a body that carries
\* another id and no industry, and a Replace of an employee that had a birth
\* date and companies by a body with neither that carries companies of its own.
C9_Witness ==
    \/ /\ Served({"replace_company"})
       /\ "id" \in DOMAIN last.body /\ last.body.id # last.id
       /\ pre.companies[last.id].industry # None
       /\ "industry" \notin DOMAIN last.body
    \/ /\ Served({"replace_employee"})
       /\ pre.employees[last.id].birth_date # None
       /\ pre.employees[last.id].companies # <<>>
       /\ "birth_date" \notin DOMAIN last.body
       /\ "companies" \in DOMAIN last.body
       /\ last.body.company_ids = <<>>

\* C10: a successful PartialUpdate leaves the id and every field other than
\* the timestamps that the body does not set as they were (for an Employee,
\* companies when the body sets no company_ids), and every other record of
\* both stores as it was.
C10_UpdateFrame ==
    /\ Served({"update_company"}) =>
          /\ DOMAIN companies = DOMAIN pre.companies
          /\ companies[last.id].id = last.id
          /\ \A f \in CompanyBaseFields \ DOMAIN last.body :
                companies[last.id][f] = pre.companies[last.id][f]
          /\ \A k \in DOMAIN companies \ {last.id} : companies[k] = pre.companies[k]
          /\ employees = pre.employees
    /\ Served({"update_employee"}) =>
          /\ DOMAIN employees = DOMAIN pre.employees
          /\ employees[last.id].id = last.id
          /\ \A f \in EmployeeBaseFields \ (DOMAIN last.body \cup {"companies"}) :
                employees[last.id][f] = pre.employees[last.id][f]
          /\ "company_ids" \notin DOMAIN last.body =>
                employees[last.id].companies = pre.employees[last.id].companies
          /\ \A k \in DOMAIN employees \ {last.id} : employees[k] = pre.employees[k]
          /\ companies = pre.companies

\* C10: a PartialUpdate with an empty body of an employee that holds a
\* company.
C10_Witness ==
    /\ Served({"update_employee"})
    /\ last.body = EmptyDict
    /\ employees[last.id].companies # <<>>

\* The employees that held the company when thread t began to delete it.
Referencing(t) == {e \in DOMAIN th[t].seen : Holds(th[t].seen[e], th[t].id)}

\* C4: while a Company Delete(C) is under way, or after it, a List of the
\* employees finds either none or all of the employees that held C rewritten,
\* a Get that finds C in the store is served when no employee has been
\* rewritten yet, and a delete that fails has rewritten no employee.
C4_DeleteAtomic ==
    \A t \in Threads :
        (th[t].op = "delete_company" /\ th[t].status # "NotFound") =>
            /\ last.op = "list_employees" =>
                  th[t].pruned = {} \/ th[t].pruned = Referencing(t)
            /\ (last.op = "get_company" /\ last.id = th[t].id /\ last.status = "OK") =>
                  th[t].pruned = {}
            /\ (th[t].pc = "done" /\ th[t].status # "OK") => th[t].pruned = {}

\* C5: once a Company Delete(C) and an Employee Create or PartialUpdate that
\* run concurrently have both completed, no Employee holds a snapshot of a
\* company that is not in the Company store.
C5_NoDanglingAfterRace ==
    (\A t \in Threads : th[t].pc = "done") => C2_NoDanglingReference

\* C6: two concurrent PartialUpdates of one Employee that set different
\* fields have both taken effect once both have completed.
C6_NoLostUpdate ==
    \A t1, t2 \in Threads :
        ( /\ t1 # t2
          /\ th[t1].op = "update_employee" /\ th[t2].op = "update_employee"
          /\ th[t1].pc = "done" /\ th[t2].pc = "done"
          /\ th[t1].status = "OK" /\ th[t2].status = "OK"
          /\ th[t1].id = th[t2].id
          /\ "company_ids" \notin DOMAIN th[t1].body \cup DOMAIN th[t2].body
          /\ DOMAIN th[t1].body \cap DOMAIN th[t2].body = {} )
        => \A f \in DOMAIN th[t1].body : employees[th[t1].id][f] = th[t1].body[f]

\* C11: the identifier of a record that a successful Create returns has never
\* been a key of its store before, not even of a record deleted since.
C11_FreshIdentifier ==
    [][ /\ (last'.op = "create_company" /\ last'.status = "OK" /\ last = Idle)
              => last'.result[1].id \notin issued.companies
        /\ (last'.op = "create_employee" /\ last'.status = "OK" /\ last = Idle)
              => last'.result[1].id \notin issued.employees ]_vars

\* C12: the record that a successful Create returns has created_at equal to
\* updated_at.
C12_CreatedEqualsUpdated ==
    Served({"create_company", "create_employee"}) =>
        last.result[1].created_at = last.result[1].updated_at

\* C13: a Create whose generated identifier is already a key of its store
\* fails with Conflict, returns no record, and leaves both stores as they were.
C13_ConflictLeavesStore ==
    /\ (last.op = "create_company" /\ last.id \in DOMAIN pre.companies) =>
          /\ last.status = "Conflict"
          /\ last.result = NoResult
          /\ companies = pre.companies
          /\ employees = pre.employees
    /\ (last.op = "create_employee" /\ last.id \in DOMAIN pre.employees) =>
          /\ last.status = "Conflict"
          /\ last.result = NoResult
          /\ companies = pre.companies
          /\ employees = pre.employees

\* C13: an Employee Create with a body that differs from the stored record
\* generated the identifier of an employee that holds a company.
C13_Witness ==
    /\ last.op = "create_employee"
    /\ last.status = "Conflict"
    /\ employees[last.id].companies # <<>>
    /\ employees[last.id].first_name # last.body.first_name

\* C14: a Get, PartialUpdate, Replace or Delete of an identifier that is not a
\* key of its store (a Replace with a body that passes validation) fails with
\* NotFound, returns no record, and leaves both stores as they were.
C14_UnknownIdNotFound ==
    /\ ( /\ last.op \in {"get_company", "update_company", "replace_company",
                         "delete_company"}
         /\ last.id \notin DOMAIN pre.companies
         /\ last.op = "replace_company" => CompanyValid(last.body) ) =>
          /\ last.status = "NotFound"
          /\ last.result = NoResult
          /\ companies = pre.companies
          /\ employees = pre.employees
    /\ ( /\ last.op \in {"get_employee", "update_employee", "replace_employee",
                         "delete_employee"}
         /\ last.id \notin DOMAIN pre.employees
         /\ last.op = "replace_employee" => EmployeeCreateValid(last.body) ) =>
          /\ last.status = "NotFound"
          /\ last.result = NoResult
          /\ companies = pre.companies
          /\ employees = pre.employees

\* C14: a Replace of an employee that has been deleted, with a valid body
\* whose company_ids are all in the Company store.
C14_Witness ==
    /\ last.op = "replace_employee"
    /\ last.id \in issued.employees \ DOMAIN pre.employees
    /\ EmployeeCreateValid(last.body)
    /\ last.body.company_ids # <<>>
    /\ \A i \in DOMAIN last.body.company_ids : last.body.company_ids[i] \in DOMAIN companies

\* Whether a record satisfies every predicate that a list request supplies.
CompanyMatches(c, q) ==
    \A f \in DOMAIN q \cap {"name", "industry", "size"} : c[f] = q[f]

EmployeeMatches(e, q) ==
    /\ \A f \in DOMAIN q \cap {"employee_id", "first_name", "last_name", "email",
                                "phone", "department", "team"} : e[f] = q[f]
    /\ "min_years_of_exp" \in DOMAIN q => e.yearsofexp >= q.min_years_of_exp
    /\ "company_name" \in DOMAIN q =>
          \E i \in DOMAIN e.companies : e.companies[i].name = q.company_name

\* C15: a List returns exactly the records of its store that satisfy every
\* predicate supplied, each once; with no predicate, every record.
C15_ListFilters ==
    /\ last.op = "list_companies" =>
          LET keys == {k \in DOMAIN companies : CompanyMatches(companies[k], last.body)} IN
          /\ Range(last.result) = {companies[k] : k \in keys}
          /\ Len(last.result) = Cardinality(keys)
          /\ last.body = EmptyDict => keys = DOMAIN companies
    /\ last.op = "list_employees" =>
          LET keys == {k \in DOMAIN employees : EmployeeMatches(employees[k], last.body)} IN
          /\ Range(last.result) = {employees[k] : k \in keys}
          /\ Len(last.result) = Cardinality(keys)
          /\ last.body = EmptyDict => keys = DOMAIN employees

\* C15: with {Eng, 2}, {Eng, 6} and {Sales, 6} stored in this order, a List
\* with department Eng and min_years_of_exp 5 returns the second record alone.
C15_Witness ==
    /\ last.op = "list_employees"
    /\ last.body = [department |-> "Eng", min_years_of_exp |-> 5]
    /\ Len(order.employees) = 3
    /\ LET e == Values(employees, order.employees) IN
       /\ e[1].department = "Eng" /\ e[1].yearsofexp = 2
       /\ e[2].department = "Eng" /\ e[2].yearsofexp = 6
       /\ e[3].department = "Sales" /\ e[3].yearsofexp = 6
       /\ last.result = <<e[2]>>

\* C16: a successful Company PartialUpdate or Replace leaves the Employee
\* store as it was, and a List of employees by company_name returns the
\* employees that embed a snapshot of that name, whatever the name the
\* Company store has for the company now.
C16_SnapshotsStale ==
    /\ Served({"update_company", "replace_company"}) => employees = pre.employees
    /\ (last.op = "list_employees" /\ "company_name" \in DOMAIN last.body) =>
          \A k \in DOMAIN employees :
              (\E i \in DOMAIN last.result : last.result[i] = employees[k]) <=>
                  /\ EmployeeMatches(employees[k], [f \in DOMAIN last.body \ {"company_name"}
                                                      |-> last.body[f]])
                  /\ \E i \in DOMAIN employees[k].companies :
                        employees[k].companies[i].name = last.body.company_name

\* C16: a List by the name a company had when an employee was linked to it
\* returns that employee after the company has been renamed in its store.
C16_Witness ==
    /\ last.op = "list_employees"
    /\ "company_name" \in DOMAIN last.body
    /\ \E i \in DOMAIN last.result :
          \E j \in DOMAIN last.result[i].companies :
             LET c == last.result[i].companies[j] IN
             /\ c.name = last.body.company_name
             /\ c.id \in DOMAIN companies
             /\ companies[c.id].name # c.name

\* C17: a successful Create leaves in its store, under the identifier it
\* returns, the record it returns, and a successful Get returns the record
\* its store holds under the identifier and changes neither store; so a Get
\* served next after the Create returns the record the Create returned,
\* equal in every field.
C17_GetAfterCreate ==
    /\ Served({"create_company"}) =>
          /\ last.result[1].id \in DOMAIN companies
          /\ companies[last.result[1].id] = last.result[1]
    /\ Served({"create_employee"}) =>
          /\ last.result[1].id \in DOMAIN employees
          /\ employees[last.result[1].id] = last.result[1]
    /\ Served({"get_company"}) =>
          /\ last.result = <<companies[last.id]>>
          /\ companies = pre.companies /\ employees = pre.employees
    /\ Served({"get_employee"}) =>
          /\ last.result = <<employees[last.id]>>
          /\ companies = pre.companies /\ employees = pre.employees

\* C17: a Get of the employee created last, which holds a company and whose
\* two timestamps differ.
C17_Witness ==
    /\ Served({"get_employee"})
    /\ last.id = order.employees[Len(order.employees)]
    /\ last.result[1].companies # <<>>
    /\ last.result[1].created_at # last.result[1].updated_at

\* C18: a successful Employee Create, Replace or PartialUpdate whose body
\* carries company_ids leaves the employee with one snapshot for each entry
\* of company_ids, in the order of the entries, each the record the Company
\* store holds for that entry; a successful PartialUpdate whose body carries
\* no company_ids leaves the companies of the employee as they were.
C18_CompaniesFromIds ==
    /\ ( /\ Served({"create_employee", "update_employee", "replace_employee"})
         /\ "company_ids" \in DOMAIN last.body ) =>
          LET ids == last.body.company_ids
              emp == employees[last.id]
          IN  /\ Len(emp.companies) = Len(ids)
              /\ \A i \in DOMAIN ids : emp.companies[i] = pre.companies[ids[i]]
              /\ last.result[1].companies = emp.companies
    /\ ( /\ Served({"update_employee"})
         /\ "company_ids" \notin DOMAIN last.body ) =>
          employees[last.id].companies = pre.employees[last.id].companies

\* C18: a PartialUpdate that names a company twice, of an employee whose
\* snapshot of that company was taken before the company was renamed.
C18_Witness ==
    /\ Served({"update_employee"})
    /\ "company_ids" \in DOMAIN last.body
    /\ \E i, j \in DOMAIN last.body.company_ids :
          i # j /\ last.body.company_ids[i] = last.body.company_ids[j]
    /\ \E i \in DOMAIN pre.employees[last.id].companies :
          LET c == pre.employees[last.id].companies[i] IN
          /\ c.id \in Range(last.body.company_ids)
          /\ c # companies[c.id]

\* C19: a successful Company Delete(C) leaves every Employee that held no
\* snapshot of C as it was in every field, adds and removes no Employee,
\* changes no field other than companies of the Employees that held C, and
\* leaves every Company record other than C as it was.
C19_DeleteFrame ==
    Served({"delete_company"}) =>
        /\ DOMAIN employees = DOMAIN pre.employees
        /\ \A e \in DOMAIN pre.employees :
              IF Holds(pre.employees[e], last.id)
              THEN DictPop(employees[e], "companies") = DictPop(pre.employees[e], "companies")
              ELSE employees[e] = pre.employees[e]
        /\ DOMAIN companies = DOMAIN pre.companies \ {last.id}
        /\ \A k \in DOMAIN companies : companies[k] = pre.companies[k]

\* C19: a delete of a company that one employee held, while another employee
\* held only a company that stays.
C19_Witness ==
    /\ Served({"delete_company"})
    /\ \E e1, e2 \in DOMAIN pre.employees :
          /\ Holds(pre.employees[e1], last.id)
          /\ ~Holds(pre.employees[e2], last.id)
          /\ pre.employees[e2].companies # <<>>

\* The requests on the Employee store, and the reads.
EmployeeOps ==
    {"create_employee", "list_employees", "get_employee", "update_employee",
     "replace_employee", "delete_employee"}
ReadOps == {"list_companies", "get_company", "list_employees", "get_employee"}

\* C20: no Employee request, served or failed, changes the Company store; no
\* Get or List changes either store; a successful Employee Delete removes
\* the target record and leaves every other Employee as it was.
C20_EmployeeOpsFrame ==
    /\ last.op \in EmployeeOps => companies = pre.companies
    /\ last.op \in ReadOps => (companies = pre.companies /\ employees = pre.employees)
    /\ Served({"delete_employee"}) =>
          /\ DOMAIN employees = DOMAIN pre.employees \ {last.id}
          /\ last.id \in DOMAIN pre.employees
          /\ \A k \in DOMAIN employees : employees[k] = pre.employees[k]

\* C20: a delete of one of two employees.
C20_Witness ==
    /\ Served({"delete_employee"})
    /\ employees # EmptyDict
    /\ last.id \notin DOMAIN employees

\* C21: every record of the Company store and of the Employee store has for
\* its id the key it is stored under.
C21_IdIsKey ==
    /\ \A k \in DOMAIN companies : companies[k].id = k
    /\ \A k \in DOMAIN employees : employees[k].id = k

\* C21: a PartialUpdate of a company by a body that carries the id of
\* another company of the store.
C21_Witness ==
    /\ Served({"update_company"})
    /\ "id" \in DOMAIN last.body
    /\ last.body.id # last.id
    /\ last.body.id \in DOMAIN companies

====
